---- MODULE Spec2Model ----
(***************************************************************************)
(* Model of honeybee's MULTI render state and page splitter                *)
(* (src/bin/honeybee/src/render.rs): RenderState::update, the text         *)
(* rectangle validator, PageSplitter::make_page / page_state / next and    *)
(* PageRenderer, and the layout tree (Span, Fragment, Line, Block) that    *)
(* the file keeps inside comment blocks.                                   *)
(*                                                                         *)
(* Option<T> is modelled as a sequence: <<>> is None, <<x>> is Some(x).    *)
(* Color::Legacy(n) is the number n.  A justification is its MULTI code.   *)
(***************************************************************************)
EXTENDS Integers, Sequences, FiniteSets, TLC

VARIABLES default_state, render_state, parser, more, pc, rs, values, out, raster, layout

vars == <<default_state, render_state, parser, more, pc, rs, values, out, raster, layout>>

(* ------------------------------ bounds --------------------------------- *)

\* Longest token stream handed to the splitter.
MaxLen == 2

\* Longest token stream of the page-structure runs (SpecPages).
MaxPagesLen == 4

\* Longest token stream of the rectangle runs (SpecRect).
MaxRectLen == 2

\* How many times next() is called again after the splitter is exhausted.
MaxNone == 2

\* Most spans of a fragment and most lines of a block laid out.
MaxSpans == 2

MaxLines == 2

(* --------------------------- external types ---------------------------- *)

None == <<>>

Some(x) == <<x>>

unwrap_or(o, d) == IF o = None THEN d ELSE o[1]

\* multi::Rectangle
Rectangle_new(x, y, w, h) == [x |-> x, y |-> y, w |-> w, h |-> h]

\* multi::Rectangle::contains: sub-rectangle inclusion.
contains(d, r) ==
    /\ r.x >= d.x
    /\ r.y >= d.y
    /\ r.x + r.w <= d.x + d.w
    /\ r.y + r.h <= d.y + d.h

\* multi::PageJustification as the code of the [jp] tag.
PageJustification == [Other |-> 1, Top |-> 2, Middle |-> 3, Bottom |-> 4]

\* multi::LineJustification as the code of the [jl] tag.
LineJustification == [Other |-> 1, Left |-> 2, Center |-> 3, Right |-> 4, Full |-> 5]

\* multi::SyntaxError kinds that reach the caller of the splitter; Tokenizer
\* stands for whichever error the tokenizer reports for a malformed tag.
SyntaxError == [Other |-> "Other",
                TextTooBig |-> "TextTooBig",
                Tokenizer |-> "Tokenizer",
                UnsupportedTag |-> "UnsupportedTag",
                UnsupportedTagValue |-> "UnsupportedTagValue"]

NoRect == Rectangle_new(0, 0, 0, 0)

\* multi::Value (and the Err item of the tokenizer), one record shape for
\* every variant: a, b are Option<u8> arguments, r a rectangle, f an
\* Option<font>.
Tok(tag, a, b, r, f) == [tag |-> tag, a |-> a, b |-> b, r |-> r, f |-> f]

ColorBackground(c) == Tok("cb", c, None, NoRect, None)

ColorForeground(c) == Tok("cf", c, None, NoRect, None)

Font(f) == Tok("fo", None, None, NoRect, f)

JustificationLine(jl) == Tok("jl", jl, None, NoRect, None)

JustificationPage(jp) == Tok("jp", jp, None, NoRect, None)

NewLine(ls) == Tok("nl", ls, None, NoRect, None)

NewPage == Tok("np", None, None, NoRect, None)

PageBackground(c) == Tok("pb", c, None, NoRect, None)

PageTime(on, off) == Tok("pt", on, off, NoRect, None)

SpacingCharacter(sc) == Tok("sc", Some(sc), None, NoRect, None)

SpacingCharacterEnd == Tok("/sc", None, None, NoRect, None)

TextRectangle(r) == Tok("tr", None, None, r, None)

Text == Tok("text", None, None, NoRect, None)

\* Value::Text(s) with a non-empty run: a is the width in pixels the font
\* gives the run s.
TextOf(width) == Tok("text", Some(width), None, NoRect, None)

text_width(v) == unwrap_or(v.a, 0)

\* One of the variants update has no arm for: [fl] flashing text.
Flash == Tok("fl", None, None, NoRect, None)

\* One of the variants update has no arm for: [hc] hexadecimal character.
HexadecimalCharacter == Tok("hc", Some(65), None, NoRect, None)

\* One of the variants update has no arm for: [ms] manufacturer specific.
ManufacturerSpecific == Tok("ms", Some(1), None, NoRect, None)

\* Some(Err(e)) from the tokenizer.
ParseErr == Tok("err", None, None, NoRect, None)

(* ----------------------------- RenderState ----------------------------- *)

RenderState_new(color_scheme, color_foreground, page_background, page_on_time_ds, page_off_time_ds, text_rectangle, just_page, just_line, char_width, char_height, font) ==
    [color_scheme     |-> color_scheme,
     color_foreground |-> color_foreground,
     color_background |-> page_background,
     page_background  |-> page_background,
     page_on_time_ds  |-> page_on_time_ds,
     page_off_time_ds |-> page_off_time_ds,
     text_rectangle   |-> text_rectangle,
     line_spacing     |-> None,
     char_spacing     |-> None,
     just_page        |-> just_page,
     just_line        |-> just_line,
     char_width       |-> char_width,
     char_height      |-> char_height,
     font             |-> font]

is_char_matrix(self) == self.char_width > 0

is_full_matrix(self) == self.char_width = 0 /\ self.char_height = 0

\* UnitResult together with self after the call; name is the payload of
\* UnsupportedTag(name).
Ok(self) == [ok |-> TRUE, err |-> "", name |-> "", rs |-> self]

Err(e, self) == [ok |-> FALSE, err |-> e, name |-> "", rs |-> self]

ErrUnsupportedTag(name, self) == [ok |-> FALSE, err |-> SyntaxError.UnsupportedTag, name |-> name, rs |-> self]

\* u16 subtraction as the release build computes it.
sub_u16(a, b) == (a - b + 65536) % 65536

\* Mutant: the rectangle is stored before it is checked.
update_text_rectangle_stores_first(self, default, r) ==
    IF ~contains(default.text_rectangle, r)
    THEN Err(SyntaxError.UnsupportedTagValue, [self EXCEPT !.text_rectangle = r])
    ELSE IF self.char_width > 0
            /\ (sub_u16(r.x, 1) % self.char_width # 0
                \/ r.w % self.char_width # 0)
    THEN Err(SyntaxError.UnsupportedTagValue, [self EXCEPT !.text_rectangle = r])
    ELSE IF self.char_height > 0
            /\ (sub_u16(r.y, 1) % self.char_height # 0
                \/ r.h % self.char_height # 0)
    THEN Err(SyntaxError.UnsupportedTagValue, [self EXCEPT !.text_rectangle = r])
    ELSE Ok([self EXCEPT !.text_rectangle = r])

\* Mutant: the line-boundary check is left out.
update_text_rectangle_no_line_check(self, default, r) ==
    IF ~contains(default.text_rectangle, r)
    THEN Err(SyntaxError.UnsupportedTagValue, self)
    ELSE IF self.char_width > 0
            /\ (sub_u16(r.x, 1) % self.char_width # 0
                \/ r.w % self.char_width # 0)
    THEN Err(SyntaxError.UnsupportedTagValue, self)
    ELSE Ok([self EXCEPT !.text_rectangle = r])

\* Mutant: the containment check is left out.
update_text_rectangle_no_contains(self, default, r) ==
    IF self.char_width > 0
       /\ (sub_u16(r.x, 1) % self.char_width # 0
           \/ r.w % self.char_width # 0)
    THEN Err(SyntaxError.UnsupportedTagValue, self)
    ELSE IF self.char_height > 0
            /\ (sub_u16(r.y, 1) % self.char_height # 0
                \/ r.h % self.char_height # 0)
    THEN Err(SyntaxError.UnsupportedTagValue, self)
    ELSE Ok([self EXCEPT !.text_rectangle = r])

update_text_rectangle(self, default, r) ==
    IF ~contains(default.text_rectangle, r)
    THEN Err(SyntaxError.UnsupportedTagValue, self)
    ELSE IF self.char_width > 0
            /\ (sub_u16(r.x, 1) % self.char_width # 0
                \/ r.w % self.char_width # 0)
    THEN Err(SyntaxError.UnsupportedTagValue, self)
    ELSE IF self.char_height > 0
            /\ (sub_u16(r.y, 1) % self.char_height # 0
                \/ r.h % self.char_height # 0)
    THEN Err(SyntaxError.UnsupportedTagValue, self)
    ELSE Ok([self EXCEPT !.text_rectangle = r])


\* Mutant: a new line also ends the character spacing.
update_new_line_ends_spacing(self, ls) ==
    IF ls = None THEN Ok([self EXCEPT !.line_spacing = None, !.char_spacing = None])
    ELSE IF ~is_full_matrix(self)
    THEN Err(SyntaxError.UnsupportedTagValue, self)
    ELSE Ok([self EXCEPT !.line_spacing = Some(ls[1]), !.char_spacing = None])

\* Mutant: the line spacing is refused as an unsupported tag.
update_new_line_wrong_kind(self, ls) ==
    IF ls = None THEN Ok([self EXCEPT !.line_spacing = None])
    ELSE IF ~is_full_matrix(self)
    THEN ErrUnsupportedTag("nl", self)
    ELSE Ok([self EXCEPT !.line_spacing = Some(ls[1])])

\* Mutant: the line spacing is taken on every sign.
update_new_line_unchecked(self, ls) ==
    IF ls = None THEN Ok([self EXCEPT !.line_spacing = None])
    ELSE Ok([self EXCEPT !.line_spacing = Some(ls[1])])

update_new_line(self, ls) ==
    IF ls = None THEN Ok([self EXCEPT !.line_spacing = None])
    ELSE IF ~is_full_matrix(self)
    THEN Err(SyntaxError.UnsupportedTagValue, self)
    ELSE Ok([self EXCEPT !.line_spacing = Some(ls[1])])

\* Mutant: the character spacing is guarded like the line spacing.
update_spacing_character_full_only(self, sc) ==
    IF ~is_full_matrix(self)
    THEN ErrUnsupportedTag("sc", self)
    ELSE Ok([self EXCEPT !.char_spacing = Some(sc[1])])

update_spacing_character(self, sc) ==
    IF is_char_matrix(self)
    THEN ErrUnsupportedTag("sc", self)
    ELSE Ok([self EXCEPT !.char_spacing = Some(sc[1])])

\* Mutant: an absent side of the page time keeps the running value.
update_page_time_keeps_absent(self, default, on, off) ==
    Ok([self EXCEPT
          !.page_on_time_ds = unwrap_or(on, self.page_on_time_ds),
          !.page_off_time_ds = unwrap_or(off, self.page_off_time_ds)])

update_page_time(self, default, on, off) ==
    Ok([self EXCEPT
          !.page_on_time_ds = unwrap_or(on, default.page_on_time_ds),
          !.page_off_time_ds = unwrap_or(off, default.page_off_time_ds)])


\* Mutant: a variant without an arm is passed over instead of refused.
update_ignores_unknown(self, default, v) ==
    CASE v.tag = "cb" ->
           Ok([self EXCEPT !.color_background =
                               unwrap_or(v.a, default.color_background)])
      [] v.tag = "cf" ->
           Ok([self EXCEPT !.color_foreground =
                               unwrap_or(v.a, default.color_foreground)])
      [] v.tag = "fo" ->
           Ok([self EXCEPT !.font = unwrap_or(v.f, default.font)])
      [] v.tag = "jl" ->
           Ok([self EXCEPT !.just_line = unwrap_or(v.a, default.just_line)])
      [] v.tag = "jp" ->
           Ok([self EXCEPT !.just_page = unwrap_or(v.a, default.just_page)])
      [] v.tag = "nl" -> update_new_line(self, v.a)
      [] v.tag = "pb" ->
           Ok([self EXCEPT !.page_background =
                               unwrap_or(v.a, default.page_background)])
      [] v.tag = "pt" -> update_page_time(self, default, v.a, v.b)
      [] v.tag = "sc" -> update_spacing_character(self, v.a)
      [] v.tag = "/sc" -> Ok([self EXCEPT !.char_spacing = None])
      [] v.tag = "tr" -> update_text_rectangle(self, default, v.r)
      [] v.tag = "text" -> Ok(self)
      [] OTHER -> Ok(self)

update(self, default, v) ==
    CASE v.tag = "cb" ->
           Ok([self EXCEPT !.color_background =
                               unwrap_or(v.a, default.color_background)])
      [] v.tag = "cf" ->
           Ok([self EXCEPT !.color_foreground =
                               unwrap_or(v.a, default.color_foreground)])
      [] v.tag = "fo" ->
           Ok([self EXCEPT !.font = unwrap_or(v.f, default.font)])
      [] v.tag = "jl" ->
           Ok([self EXCEPT !.just_line = unwrap_or(v.a, default.just_line)])
      [] v.tag = "jp" ->
           Ok([self EXCEPT !.just_page = unwrap_or(v.a, default.just_page)])
      [] v.tag = "nl" -> update_new_line(self, v.a)
      [] v.tag = "pb" ->
           Ok([self EXCEPT !.page_background =
                               unwrap_or(v.a, default.page_background)])
      [] v.tag = "pt" -> update_page_time(self, default, v.a, v.b)
      [] v.tag = "sc" -> update_spacing_character(self, v.a)
      [] v.tag = "/sc" -> Ok([self EXCEPT !.char_spacing = None])
      [] v.tag = "tr" -> update_text_rectangle(self, default, v.r)
      [] v.tag = "text" -> Ok(self)
      [] OTHER -> ErrUnsupportedTag(v.tag, self)

(* ----------------------------- input sets ------------------------------ *)

\* Device profiles: the two of the tests (full matrix 60x30, character
\* matrix 5x7 on 100x21) and the two mixed ones (line matrix: cell height
\* only; fixed pitch without line cells: cell width only).
make_full_matrix ==
    RenderState_new("Monochrome1Bit", 1, 0, 20, 0, Rectangle_new(1, 1, 60, 30), PageJustification.Top, LineJustification.Left, 0, 0, [num |-> 1, ver |-> None])

make_char_matrix ==
    RenderState_new("Monochrome1Bit", 1, 0, 20, 0, Rectangle_new(1, 1, 100, 21), PageJustification.Top, LineJustification.Left, 5, 7, [num |-> 1, ver |-> None])

make_line_matrix == [make_char_matrix EXCEPT !.char_width = 0]

make_width_matrix == [make_char_matrix EXCEPT !.char_height = 0]

Devices == {make_full_matrix, make_char_matrix, make_line_matrix, make_width_matrix}

\* Rectangles of the [tr] tokens of a stream: inside and cell-aligned on
\* every device, inside but off the 5x7 cells, and outside every device.
StreamRects == {Rectangle_new(1, 1, 50, 14), Rectangle_new(1, 1, 10, 10), Rectangle_new(1, 1, 200, 14)}

\* The items the tokenizer can yield.
Values ==
    {ColorBackground(None), ColorBackground(Some(9)),
     ColorForeground(None), ColorForeground(Some(3)),
     Font(None), Font(Some([num |-> 3, ver |-> Some(4660)])),
     JustificationLine(None), JustificationLine(Some(LineJustification.Right)),
     JustificationPage(None), JustificationPage(Some(PageJustification.Middle)),
     NewLine(None), NewLine(Some(4)),
     NewPage,
     PageBackground(None), PageBackground(Some(5)),
     PageTime(None, None), PageTime(Some(10), Some(2)), PageTime(Some(10), None),
     SpacingCharacter(2), SpacingCharacterEnd,
     Text, TextOf(102), Flash, HexadecimalCharacter, ManufacturerSpecific, ParseErr}
    \cup {TextRectangle(r) : r \in StreamRects}

RECURSIVE SeqsUpTo(_, _)
SeqsUpTo(S, n) ==
    IF n = 0 THEN {<<>>}
    ELSE LET shorter == SeqsUpTo(S, n - 1)
         IN  shorter \cup {Append(s, x) : s \in {t \in shorter : Len(t) = n - 1}, x \in S}

(* ------------------------------ PageSplitter --------------------------- *)

\* multi::Parser over the item sequence of the MULTI string.
Parser_new(ms) == [ms |-> ms, pos |-> 1]

parser_at_end == parser.pos > Len(parser.ms)

parser_item == parser.ms[parser.pos]

parser_advance == [parser EXCEPT !.pos = @ + 1]

\* An item of the page sequence: Some(Ok(PageRenderer)), Some(Err(e)), None.
PageRenderer_new(render_state_, values_) ==
    [kind |-> "page", render_state |-> render_state_, values |-> values_, err |-> "", name |-> ""]

ErrItemNamed(e, name) == [kind |-> "err", render_state |-> default_state, values |-> <<>>, err |-> e, name |-> name]

ErrItem(e) == ErrItemNamed(e, "")

NoneItem == [kind |-> "none", render_state |-> default_state, values |-> <<>>, err |-> "", name |-> ""]

(* ------------------------------ PageRenderer --------------------------- *)

\* multi::Color::rgb: the color under the scheme, None when the scheme has
\* no such color.  Monochrome1Bit has the two colors 0 and 1.
rgb(color, color_scheme) ==
    IF color_scheme = "Monochrome1Bit" /\ color = 0 THEN Some(<<0, 0, 0>>)
    ELSE IF color_scheme = "Monochrome1Bit" /\ color = 1 THEN Some(<<255, 255, 255>>)
    ELSE None

\* raster::Raster::new: a buffer of width x height pixels, all rgba.
Raster_new(width, height, rgba) == [w |-> width, h |-> height, fill |-> rgba]

NoRaster == Raster_new(0, 0, <<>>)

\* Result<Raster, SyntaxError> of the render of page number n of the sequence.
RenderOk(page) == [ok |-> TRUE, err |-> "", page |-> page]

RenderErr(e) == [ok |-> FALSE, err |-> e, page |-> NoRaster]

\* PageRenderer::render on the page self: the layout loop is a FIXME, the
\* values are only counted.
\* Mutant: the buffer is filled opaque.
render_opaque(self) ==
    LET w == self.render_state.text_rectangle.w
        h == self.render_state.text_rectangle.h
        clr == rgb(self.render_state.page_background, self.render_state.color_scheme)
    IN  IF clr = None THEN RenderErr(SyntaxError.Other)
        ELSE RenderOk(Raster_new(w, h, <<clr[1][1], clr[1][2], clr[1][3], 255>>))

render(self) ==
    LET w == self.render_state.text_rectangle.w
        h == self.render_state.text_rectangle.h
        clr == rgb(self.render_state.page_background, self.render_state.color_scheme)
    IN  IF clr = None THEN RenderErr(SyntaxError.Other)
        ELSE RenderOk(Raster_new(w, h, <<clr[1][1], clr[1][2], clr[1][3], 0>>))

\* No layout computed: the splitter runs keep this value.
NoLayout == [kind |-> "none"]

\* No page rendered yet.
NotRendered == [of |-> 0, res |-> RenderErr("")]

\* Mutant: the character spacing is reset with the line spacing.
page_state_resets_char_spacing(render_state_, default) ==
    [render_state_ EXCEPT !.text_rectangle = default.text_rectangle,
                          !.line_spacing = default.line_spacing,
                          !.char_spacing = default.char_spacing]

\* Mutant: the text rectangle is not set back.
page_state_keeps_rectangle(render_state_, default) ==
    [render_state_ EXCEPT !.line_spacing = default.line_spacing]

page_state(render_state_, default) ==
    [render_state_ EXCEPT !.text_rectangle = default.text_rectangle,
                          !.line_spacing = default.line_spacing]

\* Mutant: the page background is not copied after the scan.
page_scoped_no_background(rs_, render_state_) ==
    [rs_ EXCEPT !.page_on_time_ds = render_state_.page_on_time_ds,
                !.page_off_time_ds = render_state_.page_off_time_ds]

\* The three page-scoped fields copied after the scan (make_page's tail).
page_scoped(rs_, render_state_) ==
    [rs_ EXCEPT !.page_background = render_state_.page_background,
                !.page_on_time_ds = render_state_.page_on_time_ds,
                !.page_off_time_ds = render_state_.page_off_time_ds]

\* Mutant: the splitter starts with more clear.
PageSplitter_new_not_more(render_state_, ms) ==
    /\ default_state = render_state_
    /\ render_state = render_state_
    /\ parser = Parser_new(ms)
    /\ more = FALSE
    /\ pc = "idle"
    /\ rs = render_state_
    /\ values = <<>>
    /\ out = <<>>
    /\ raster = NotRendered
    /\ layout = NoLayout

PageSplitter_new(render_state_, ms) ==
    /\ default_state = render_state_
    /\ render_state = render_state_
    /\ parser = Parser_new(ms)
    /\ more = TRUE
    /\ pc = "idle"
    /\ rs = render_state_
    /\ values = <<>>
    /\ out = <<>>
    /\ raster = NotRendered
    /\ layout = NoLayout

Init == \E d \in Devices, ms \in SeqsUpTo(Values, MaxLen) : PageSplitter_new(d, ms)

\* Mutant: every page starts from the sign's page background and times.
NextSome_page_scoped_reset ==
    /\ pc = "idle"
    /\ more
    /\ more' = FALSE
    /\ render_state' = page_scoped(render_state, default_state)
    /\ rs' = page_state(render_state', default_state)
    /\ values' = <<>>
    /\ pc' = "scan"
    /\ UNCHANGED <<default_state, parser, out, raster, layout>>

\* next() with more set: make_page begins (more cleared, page state taken).
NextSome ==
    /\ pc = "idle"
    /\ more
    /\ more' = FALSE
    /\ rs' = page_state(render_state, default_state)
    /\ values' = <<>>
    /\ pc' = "scan"
    /\ UNCHANGED <<default_state, render_state, parser, out, raster, layout>>

\* Mutant: returning None sets more again.
NextNone_sets_more ==
    /\ pc = "idle"
    /\ ~more
    /\ Cardinality({i \in 1..Len(out) : out[i].kind = "none"}) < MaxNone
    /\ out' = Append(out, NoneItem)
    /\ more' = TRUE
    /\ UNCHANGED <<default_state, render_state, parser, pc, rs, values, raster, layout>>

\* next() with more clear: None.
NextNone ==
    /\ pc = "idle"
    /\ ~more
    /\ Cardinality({i \in 1..Len(out) : out[i].kind = "none"}) < MaxNone
    /\ out' = Append(out, NoneItem)
    /\ UNCHANGED <<default_state, render_state, parser, more, pc, rs, values, raster, layout>>

\* make_page returns: the locals go out of scope.
Return(item) ==
    /\ out' = Append(out, item)
    /\ pc' = "idle"
    /\ rs' = default_state
    /\ values' = <<>>
    /\ UNCHANGED <<raster, layout>>

\* parser.next() is None: the loop ends, the page is returned.
ScanEnd ==
    /\ pc = "scan"
    /\ parser_at_end
    /\ Return(PageRenderer_new(page_scoped(rs, render_state), values))
    /\ UNCHANGED <<default_state, render_state, parser, more>>

\* parser.next() is Some(Err(e)): t? returns the error.
ScanParseErr ==
    /\ pc = "scan"
    /\ ~parser_at_end
    /\ parser_item.tag = "err"
    /\ parser' = parser_advance
    /\ Return(ErrItem(SyntaxError.Tokenizer))
    /\ UNCHANGED <<default_state, render_state, more>>

\* Mutant: the page break ends the page without setting more.
ScanNewPage_more_clear ==
    /\ pc = "scan"
    /\ ~parser_at_end
    /\ parser_item.tag = "np"
    /\ parser' = parser_advance
    /\ more' = FALSE
    /\ Return(PageRenderer_new(page_scoped(rs, render_state), values))
    /\ UNCHANGED <<default_state, render_state>>

\* The item is NewPage: more is set, the loop breaks, the page is returned.
ScanNewPage ==
    /\ pc = "scan"
    /\ ~parser_at_end
    /\ parser_item.tag = "np"
    /\ parser' = parser_advance
    /\ more' = TRUE
    /\ Return(PageRenderer_new(page_scoped(rs, render_state), values))
    /\ UNCHANGED <<default_state, render_state>>

\* Mutant: the accepted item is put in front of the page's content.
ScanValue_pushes_front ==
    /\ pc = "scan"
    /\ ~parser_at_end
    /\ parser_item.tag \notin {"err", "np"}
    /\ LET res == update(render_state, default_state, parser_item)
       IN  /\ res.ok
           /\ render_state' = res.rs
           /\ values' = <<parser_item>> \o values
    /\ parser' = parser_advance
    /\ UNCHANGED <<default_state, more, pc, rs, out, raster, layout>>

\* Any other item, accepted by update: pushed on values.
ScanValue ==
    /\ pc = "scan"
    /\ ~parser_at_end
    /\ parser_item.tag \notin {"err", "np"}
    /\ LET res == update(render_state, default_state, parser_item)
       IN  /\ res.ok
           /\ render_state' = res.rs
           /\ values' = Append(values, parser_item)
    /\ parser' = parser_advance
    /\ UNCHANGED <<default_state, more, pc, rs, out, raster, layout>>

\* Mutant: a rejected item leaves the splitter ready for another page.
ScanReject_sets_more ==
    /\ pc = "scan"
    /\ ~parser_at_end
    /\ parser_item.tag \notin {"err", "np"}
    /\ LET res == update(render_state, default_state, parser_item)
       IN  /\ ~res.ok
           /\ render_state' = res.rs
           /\ Return(ErrItemNamed(res.err, res.name))
    /\ parser' = parser_advance
    /\ more' = TRUE
    /\ UNCHANGED default_state

\* Any other item, rejected by update: update(..)? returns the error.
ScanReject ==
    /\ pc = "scan"
    /\ ~parser_at_end
    /\ parser_item.tag \notin {"err", "np"}
    /\ LET res == update(render_state, default_state, parser_item)
       IN  /\ ~res.ok
           /\ render_state' = res.rs
           /\ Return(ErrItemNamed(res.err, res.name))
    /\ parser' = parser_advance
    /\ UNCHANGED <<default_state, more>>

\* The caller renders the page it was just given (PageRenderer::render).
Render ==
    /\ pc = "idle"
    /\ Len(out) > 0
    /\ out[Len(out)].kind = "page"
    /\ raster.of # Len(out)
    /\ raster' = [of |-> Len(out), res |-> render(out[Len(out)])]
    /\ UNCHANGED <<default_state, render_state, parser, more, pc, rs, values, out, layout>>

(* ----------------- the layout tree (inside comment blocks) -------------- *)

\* RenderState::char_width(): the cell width, 1 for variable width.
char_width(self) == IF is_char_matrix(self) THEN self.char_width ELSE 1

\* RenderState::char_height(): the cell height, 1 for variable height.
char_height(self) == IF self.char_height > 0 THEN self.char_height ELSE 1

\* Result<u32, SyntaxError> of the layout functions; Panic is the abort of
\* an arithmetic overflow in a build with overflow checks.
OkVal(v) == [ok |-> TRUE, err |-> "", v |-> v]

ErrVal(e) == [ok |-> FALSE, err |-> e, v |-> 0]

Panic == "panic"

\* sp0 + sp1 on u8: within range the sum; past it the build decides, a
\* panic with overflow checks (debug), the sum modulo 2^8 without (release).
add_u8(a, b, overflow_checks) ==
    IF a + b < 2 ^ 8 THEN OkVal(a + b)
    ELSE IF overflow_checks THEN ErrVal(Panic)
    ELSE OkVal((a + b) % 2 ^ 8)

\* (n as f32 / 2f32).round() for an integer n >= 0: f32::round rounds a
\* half away from zero.
round_half(n) == (n + 1) \div 2

\* A Span, by what the font makes of it: its rendered width
\* (font.width(span, cs)), the explicit character spacing of its render
\* state and the font's own character spacing.
Span_new(width, char_spacing, font_char_spacing) == [width |-> width, char_spacing |-> char_spacing, font_char_spacing |-> font_char_spacing]

Span_char_spacing(self) == IF self.char_spacing # None THEN self.char_spacing[1] ELSE self.font_char_spacing

Span_char_spacing_avg(self, other, overflow_checks) ==
    LET sum == add_u8(Span_char_spacing(self), Span_char_spacing(other), overflow_checks)
    IN  IF sum.ok THEN OkVal(round_half(sum.v)) ELSE sum

Span_width(self) == self.width

\* A Line, by its height (the tallest fragment), the explicit line spacing
\* of its render state and the line spacing of its fonts.
Line_new(height, line_spacing, font_line_spacing) == [height |-> height, line_spacing |-> line_spacing, font_line_spacing |-> font_line_spacing]

Line_height(self) == self.height

Line_line_spacing(self) == self.font_line_spacing

Line_line_spacing_avg2(self, other, overflow_checks) ==
    LET sum == add_u8(Line_line_spacing(self), Line_line_spacing(other), overflow_checks)
    IN  IF sum.ok THEN OkVal(round_half(sum.v)) ELSE sum

Line_line_spacing_avg(self, other, overflow_checks) ==
    IF self.line_spacing # None THEN OkVal(self.line_spacing[1])
    ELSE Line_line_spacing_avg2(self, other, overflow_checks)

\* A Fragment: its spans and its render state.
Fragment_new(spans, render_state_) == [spans |-> spans, render_state |-> render_state_]

\* The loop of Fragment::width over the spans left, w and pspan being its
\* two locals: pspan is assigned only inside `if let Some(ps) = pspan`.
RECURSIVE Fragment_width_loop(_, _, _, _)
Fragment_width_loop(spans, w, pspan, overflow_checks) ==
    IF spans = <<>> THEN OkVal(w)
    ELSE LET span == Head(spans)
             sw == Span_width(span)
         IN  IF pspan # None /\ sw > 0
             THEN LET avg == Span_char_spacing_avg(span, pspan[1], overflow_checks)
                  IN  IF avg.ok
                      THEN Fragment_width_loop(Tail(spans), w + sw + avg.v, Some(span), overflow_checks)
                      ELSE avg
             ELSE Fragment_width_loop(Tail(spans), w, pspan, overflow_checks)

Fragment_width(self, overflow_checks) == Fragment_width_loop(self.spans, 0, None, overflow_checks)

Fragment_extra_width(self, overflow_checks) ==
    LET pw == self.render_state.text_rectangle.w
        tw == Fragment_width(self, overflow_checks)
        cw == char_width(self.render_state)
        w == pw \div cw
    IN  IF ~tw.ok THEN tw
        ELSE IF w >= tw.v \div cw THEN OkVal((w - tw.v \div cw) * cw)
        ELSE ErrVal(SyntaxError.TextTooBig)

Fragment_char_width_floor(self, ex) == (ex \div char_width(self.render_state)) * char_width(self.render_state)

Fragment_left(self, overflow_checks) ==
    LET ex == Fragment_extra_width(self, overflow_checks)
        jl == self.render_state.just_line
        x == self.render_state.text_rectangle.x
    IN  IF ~ex.ok THEN ex
        ELSE IF jl = LineJustification.Left THEN OkVal(x)
        ELSE IF jl = LineJustification.Center THEN OkVal(x + Fragment_char_width_floor(self, ex.v \div 2))
        ELSE IF jl = LineJustification.Right THEN OkVal(x + ex.v)
        ELSE ErrVal(SyntaxError.UnsupportedTagValue)

\* The loop of Fragment::render over the spans left, x (the pen) and pspan
\* being its locals; the glyphs of every span are taken to be in the font.
RECURSIVE Fragment_render_loop(_, _, _, _)
Fragment_render_loop(spans, x, pspan, overflow_checks) ==
    IF spans = <<>> THEN OkVal(x)
    ELSE LET span == Head(spans)
             avg == IF pspan # None THEN Span_char_spacing_avg(span, pspan[1], overflow_checks) ELSE OkVal(0)
         IN  IF avg.ok
             THEN Fragment_render_loop(Tail(spans), x + avg.v + Span_width(span), Some(span), overflow_checks)
             ELSE avg

\* Fragment::render, by the x the pen is left at.
Fragment_render(self, overflow_checks) ==
    LET x == Fragment_left(self, overflow_checks)
    IN  IF x.ok THEN Fragment_render_loop(self.spans, x.v, None, overflow_checks) ELSE x

\* A Block: its lines and its render state.
Block_new(lines, render_state_) == [lines |-> lines, render_state |-> render_state_]

\* The loop of Block::height: pline is assigned only inside
\* `if let Some(pl) = pline`.
RECURSIVE Block_height_loop(_, _, _, _)
Block_height_loop(lines, h, pline, overflow_checks) ==
    IF lines = <<>> THEN OkVal(h)
    ELSE LET line == Head(lines)
             lh == Line_height(line)
         IN  IF pline # None /\ lh > 0
             THEN LET avg == Line_line_spacing_avg(line, pline[1], overflow_checks)
                  IN  IF avg.ok
                      THEN Block_height_loop(Tail(lines), h + lh + avg.v, Some(line), overflow_checks)
                      ELSE avg
             ELSE Block_height_loop(Tail(lines), h, pline, overflow_checks)

Block_height(self, overflow_checks) == Block_height_loop(self.lines, 0, None, overflow_checks)

Block_extra_height(self, overflow_checks) ==
    LET ph == self.render_state.text_rectangle.h
        ch == char_height(self.render_state)
        h == ph \div ch
        r == Block_height(self, overflow_checks)
    IN  IF ~r.ok THEN r
        ELSE IF h >= r.v \div ch THEN OkVal((h - r.v \div ch) * ch)
        ELSE ErrVal(SyntaxError.TextTooBig)

Block_char_height_floor(self, ex) == (ex \div char_height(self.render_state)) * char_height(self.render_state)

Block_top(self, overflow_checks) ==
    LET ex == Block_extra_height(self, overflow_checks)
        jp == self.render_state.just_page
        y == self.render_state.text_rectangle.y
    IN  IF ~ex.ok THEN ex
        ELSE IF jp = PageJustification.Top THEN OkVal(y)
        ELSE IF jp = PageJustification.Middle THEN OkVal(y + Block_char_height_floor(self, ex.v \div 2))
        ELSE IF jp = PageJustification.Bottom THEN OkVal(y + ex.v)
        ELSE ErrVal(SyntaxError.UnsupportedTagValue)

\* The loop of Block::render over the lines left, y and pline being its
\* locals.
RECURSIVE Block_render_loop(_, _, _, _)
Block_render_loop(lines, y, pline, overflow_checks) ==
    IF lines = <<>> THEN OkVal(y)
    ELSE LET line == Head(lines)
             avg == IF pline # None THEN Line_line_spacing_avg(line, pline[1], overflow_checks) ELSE OkVal(0)
         IN  IF avg.ok
             THEN Block_render_loop(Tail(lines), y + avg.v + Line_height(line), Some(line), overflow_checks)
             ELSE avg

\* Block::render, by the baseline top + y of its last line.
Block_render(self, overflow_checks) ==
    LET top == Block_top(self, overflow_checks)
    IN  IF top.ok THEN Block_render_loop(self.lines, top.v, None, overflow_checks) ELSE top

\* A layout function not called yet.
NotComputed == ErrVal("not computed")

\* One fragment or block laid out in a build with or without overflow
\* checks: the tree, and the results of left / top (place), width / height
\* (size) and render (pen).
Layout_new(kind, overflow_checks, tree) == [kind |-> kind, overflow_checks |-> overflow_checks, tree |-> tree, place |-> NotComputed, size |-> NotComputed, pen |-> NotComputed]

\* The splitter's variables, which the layout functions do not touch.
splitter == <<default_state, render_state, parser, more, pc, rs, values, out, raster>>

\* Spans without text, 5 and 12 pixels wide, with and without explicit
\* character spacing, in a font of character spacing 1.
SpanValues == {Span_new(width, cs, 1) : width \in {0, 5, 12}, cs \in {None, Some(2)}}

\* Lines without text and 7 pixels high, with and without explicit line
\* spacing, in fonts of line spacing 1 and 2.
LineValues == {Line_new(height, ls, fls) : height \in {0, 7}, ls \in {None, Some(4)}, fls \in {1, 2}}

\* The text rectangles laid out in: the sign's own, one of 3 x 2 cells and
\* one of 4 x 2 cells of the 5 x 7 character matrix.
LayoutRects(d) == {d.text_rectangle, Rectangle_new(6, 8, 15, 14), Rectangle_new(6, 8, 20, 14)}

\* The render states of the trees: the two test signs, every line or page
\* justification, the text rectangles above.
FragmentStates == {[d EXCEPT !.just_line = jl, !.text_rectangle = r] : d \in {make_full_matrix, make_char_matrix}, jl \in {LineJustification.Other, LineJustification.Left, LineJustification.Center, LineJustification.Right, LineJustification.Full}, r \in LayoutRects(make_char_matrix)}

BlockStates == {[d EXCEPT !.just_page = jp, !.text_rectangle = r] : d \in {make_full_matrix, make_char_matrix}, jp \in {PageJustification.Other, PageJustification.Top, PageJustification.Middle, PageJustification.Bottom}, r \in LayoutRects(make_char_matrix)}

\* The splitter as constructed on the empty stream, beside the layout.
InitLayoutOf(render_state_, layout_) ==
    /\ default_state = render_state_
    /\ render_state = render_state_
    /\ parser = Parser_new(<<>>)
    /\ more = TRUE
    /\ pc = "idle"
    /\ rs = render_state_
    /\ values = <<>>
    /\ out = <<>>
    /\ raster = NotRendered
    /\ layout = layout_

InitLayout ==
    \/ \E state \in FragmentStates, spans \in SeqsUpTo(SpanValues, MaxSpans), oc \in BOOLEAN :
          InitLayoutOf(state, Layout_new("fragment", oc, Fragment_new(spans, state)))
    \/ \E state \in BlockStates, lines \in SeqsUpTo(LineValues, MaxLines), oc \in BOOLEAN :
          InitLayoutOf(state, Layout_new("block", oc, Block_new(lines, state)))

FragmentLeft ==
    /\ layout.kind = "fragment"
    /\ layout.place = NotComputed
    /\ layout' = [layout EXCEPT !.place = Fragment_left(layout.tree, layout.overflow_checks)]
    /\ UNCHANGED splitter

FragmentWidth ==
    /\ layout.kind = "fragment"
    /\ layout.size = NotComputed
    /\ layout' = [layout EXCEPT !.size = Fragment_width(layout.tree, layout.overflow_checks)]
    /\ UNCHANGED splitter

FragmentRender ==
    /\ layout.kind = "fragment"
    /\ layout.pen = NotComputed
    /\ layout' = [layout EXCEPT !.pen = Fragment_render(layout.tree, layout.overflow_checks)]
    /\ UNCHANGED splitter

BlockTop ==
    /\ layout.kind = "block"
    /\ layout.place = NotComputed
    /\ layout' = [layout EXCEPT !.place = Block_top(layout.tree, layout.overflow_checks)]
    /\ UNCHANGED splitter

BlockHeight ==
    /\ layout.kind = "block"
    /\ layout.size = NotComputed
    /\ layout' = [layout EXCEPT !.size = Block_height(layout.tree, layout.overflow_checks)]
    /\ UNCHANGED splitter

BlockRender ==
    /\ layout.kind = "block"
    /\ layout.pen = NotComputed
    /\ layout' = [layout EXCEPT !.pen = Block_render(layout.tree, layout.overflow_checks)]
    /\ UNCHANGED splitter

NextLayout ==
    \/ FragmentLeft
    \/ FragmentWidth
    \/ FragmentRender
    \/ BlockTop
    \/ BlockHeight
    \/ BlockRender

SpecLayout == InitLayout /\ [][NextLayout]_vars

\* Rectangles tried one at a time against update_text_rectangle: origins on
\* and off the 5x7 cells (and 0, outside every device), sizes on and off the
\* cells, up to and past the 60x30 and 100x21 devices.
GridRects == {Rectangle_new(x, y, w, h) : x \in {0, 1, 2, 6}, y \in {0, 1, 2, 8}, w \in {0, 5, 12, 50, 60, 100}, h \in {0, 7, 12, 14, 21, 30}}


\* The items of the page-structure runs: page break, accepted content,
\* a token accepted or rejected depending on the device, a token rejected
\* on every device, a tokenizer error.
PageValues == {NewPage, Text, PageBackground(Some(5)), SpacingCharacter(2), Flash, ParseErr}

\* The items of the runs over the page-scoped tags: page break, page
\* background and page time with and without value, a rejected token, a
\* tokenizer error.
CarryValues == {NewPage, PageBackground(Some(5)), PageBackground(None), PageTime(Some(10), Some(2)), PageTime(None, None), Flash, ParseErr}

InitPages == \E d \in Devices, ms \in SeqsUpTo(PageValues, MaxPagesLen) : PageSplitter_new(d, ms)

InitCarry == \E d \in {make_full_matrix, make_char_matrix}, ms \in SeqsUpTo(CarryValues, MaxPagesLen) : PageSplitter_new(d, ms)

InitRect == \E d \in Devices, r \in GridRects : \E ms \in SeqsUpTo({TextRectangle(r), NewPage, ParseErr}, MaxRectLen) : PageSplitter_new(d, ms)

Next ==
    \/ NextSome
    \/ NextNone
    \/ ScanEnd
    \/ ScanParseErr
    \/ ScanNewPage
    \/ ScanValue
    \/ ScanReject
    \/ Render

Spec == Init /\ [][Next]_vars

SpecRect == InitRect /\ [][Next]_vars

SpecPages == InitPages /\ [][Next]_vars

SpecCarry == InitCarry /\ [][Next]_vars

\* The caller keeps requesting and make_page's loop keeps running.
SpecPagesFair == InitPages /\ [][Next]_vars /\ WF_vars(Next)

TypeOK ==
    /\ more \in BOOLEAN
    /\ pc \in {"idle", "scan"}
    /\ parser.pos \in 1..(Len(parser.ms) + 1)

(* ------------------------ vocabulary of the claims --------------------- *)

\* The splitter is exhausted: the next request returns None.
Exhausted == pc = "idle" /\ ~more

\* The Some(..) items returned so far.
Items == SelectSeq(out, LAMBDA it : it.kind # "none")

NoErrorYet == \A i \in 1..Len(out) : out[i].kind # "err"

BreakPositions(ms) == {i \in 1..Len(ms) : ms[i].tag = "np"}

NumBreaks(ms) == Cardinality(BreakPositions(ms))

\* Position of the j-th page break of ms; 0 for j = 0, past the end when
\* ms has fewer than j page breaks.
PageEnd(ms, j) ==
    IF j = 0 THEN 0
    ELSE IF NumBreaks(ms) < j THEN Len(ms) + 1
    ELSE CHOOSE i \in BreakPositions(ms) : Cardinality({b \in BreakPositions(ms) : b <= i}) = j

\* The tokens lying between page boundaries j-1 and j.
Segment(ms, j) == SubSeq(ms, PageEnd(ms, j - 1) + 1, PageEnd(ms, j) - 1)

\* The running state after the tokens of toks, page breaks passed over.
RECURSIVE Run(_, _, _)
Run(state, default, toks) ==
    IF toks = <<>> THEN state
    ELSE Run(IF Head(toks).tag = "np" THEN state ELSE update(state, default, Head(toks)).rs, default, Tail(toks))

RunTo(ms, n) == Run(default_state, default_state, SubSeq(ms, 1, n))

\* Token i of ms is a tokenizer error or is rejected by update in the state
\* the tokens before it leave.
Fails(ms, i) ==
    \/ ms[i].tag = "err"
    \/ ms[i].tag # "np" /\ ~update(RunTo(ms, i - 1), default_state, ms[i]).ok

HasFailure(ms) == \E i \in 1..Len(ms) : Fails(ms, i)

FirstFailure(ms) == CHOOSE i \in 1..Len(ms) : Fails(ms, i) /\ \A h \in 1..(i - 1) : ~Fails(ms, h)

BreaksBefore(ms, n) == Cardinality({b \in BreakPositions(ms) : b < n})

(* -------------------------------- claims ------------------------------- *)

\* C1 (as stated): for every token stream, valid or not, an exhausted
\* splitter has returned 1 + (number of page-break tokens) items.
C1_AsStated == Exhausted => Len(Items) = 1 + NumBreaks(parser.ms)

\* C1 (amended): for a stream with no failing token, an exhausted splitter
\* has returned 1 + (number of page-break tokens in the stream) items, none
\* of them an error; for any stream it has returned at most that many.
C1_PageCount ==
    Exhausted =>
        /\ Len(Items) <= 1 + NumBreaks(parser.ms)
        /\ ~HasFailure(parser.ms) => NoErrorYet /\ Len(Items) = 1 + NumBreaks(parser.ms)

C1_Witness ==
    /\ Exhausted
    /\ ~HasFailure(parser.ms)
    /\ NumBreaks(parser.ms) = 3
    /\ Len(parser.ms) = 4
    /\ Len(Items) = 4

\* C2: the page background, on-time and off-time of every page snapshot are
\* those of the running state after all tokens of that page: the last
\* page-background / page-time tag of the page wins, wherever it stands.
C2_PageScoped ==
    \A j \in 1..Len(out) :
        out[j].kind = "page" =>
            LET after == RunTo(parser.ms, PageEnd(parser.ms, j) - 1)
                snap == out[j].render_state
            IN  /\ snap.page_background = after.page_background
                /\ snap.page_on_time_ds = after.page_on_time_ds
                /\ snap.page_off_time_ds = after.page_off_time_ds

C2_Witness ==
    \E j \in 1..Len(out) :
        /\ out[j].kind = "page"
        /\ out[j].values = <<Text, PageBackground(Some(5))>>
        /\ out[j].render_state.page_background = 5
        /\ default_state.page_background # 5

\* C3: foreground, text-run background, page and line justification, font
\* and character spacing of the snapshot of page j are the running values
\* after the tokens of pages 1..j-1 and none of page j's own tokens.
C3_Persist ==
    \A j \in 1..Len(out) :
        out[j].kind = "page" =>
            LET before == RunTo(parser.ms, PageEnd(parser.ms, j - 1))
                snap == out[j].render_state
            IN  /\ snap.color_foreground = before.color_foreground
                /\ snap.color_background = before.color_background
                /\ snap.just_page = before.just_page
                /\ snap.just_line = before.just_line
                /\ snap.font = before.font
                /\ snap.char_spacing = before.char_spacing

C3_Witness ==
    /\ Len(out) >= 2
    /\ out[1].kind = "page" /\ out[2].kind = "page"
    /\ out[1].values = <<ColorForeground(Some(3))>>
    /\ out[1].render_state.color_foreground = 1
    /\ out[2].render_state.color_foreground = 3

\* C4: every page snapshot has the default text rectangle and no explicit
\* line spacing, whatever [tr] and [nl] tokens were accepted before.
C4_PageReset ==
    \A j \in 1..Len(out) :
        out[j].kind = "page" =>
            /\ out[j].render_state.text_rectangle = default_state.text_rectangle
            /\ out[j].render_state.line_spacing = default_state.line_spacing
            /\ out[j].render_state.line_spacing = None

C4_Witness ==
    /\ Len(out) >= 2
    /\ out[1].kind = "page" /\ out[2].kind = "page"
    /\ out[1].values = <<TextRectangle(Rectangle_new(1, 1, 50, 14))>>
    /\ render_state.text_rectangle = Rectangle_new(1, 1, 50, 14)
    /\ out[2].render_state.text_rectangle # render_state.text_rectangle

\* The error the failing token i of ms is reported with.
ErrorOf(ms, i) ==
    IF ms[i].tag = "err" THEN SyntaxError.Tokenizer
    ELSE update(RunTo(ms, i - 1), default_state, ms[i]).err

\* C5: when the first failing token lies after exactly k page breaks, the
\* items are k pages in source order, then that error, then None only: no
\* page for the failing step and none after it, whatever tokens remain.
C5_FailFast ==
    HasFailure(parser.ms) =>
        LET e == FirstFailure(parser.ms)
            k == BreaksBefore(parser.ms, e)
        IN  /\ \A i \in 1..Len(out) :
                  /\ i <= k => out[i].kind = "page" /\ out[i].values = Segment(parser.ms, i)
                  /\ i = k + 1 => out[i].kind = "err" /\ out[i].err = ErrorOf(parser.ms, e)
                  /\ i > k + 1 => out[i].kind = "none"
            /\ Exhausted => Len(out) >= k + 1

C5_Witness ==
    /\ HasFailure(parser.ms)
    /\ BreaksBefore(parser.ms, FirstFailure(parser.ms)) = 1
    /\ \E b \in BreakPositions(parser.ms) : b > FirstFailure(parser.ms)
    /\ parser.ms[Len(parser.ms)].tag = "text"
    /\ Exhausted
    /\ Len(out) = 4
    /\ out[1].kind = "page" /\ out[2].kind = "err"
    /\ out[3].kind = "none" /\ out[4].kind = "none"

\* C6: an empty stream yields exactly one page, with no content and with
\* the device defaults in every attribute of its snapshot.
C6_EmptyStream ==
    parser.ms = <<>> =>
        /\ \A i \in 1..Len(out) :
              /\ i = 1 => /\ out[i].kind = "page"
                          /\ out[i].values = <<>>
                          /\ out[i].render_state = default_state
                          /\ out[i].render_state \in Devices
                          /\ out[i].render_state.color_background = default_state.page_background
                          /\ out[i].render_state.line_spacing = None
                          /\ out[i].render_state.char_spacing = None
              /\ i > 1 => out[i].kind = "none"
        /\ Exhausted => Len(Items) = 1

C6_Witness ==
    /\ parser.ms = <<>>
    /\ Exhausted
    /\ Len(out) = 3
    /\ out[1].kind = "page"

\* The acceptance condition of a text rectangle as the claim words it.
C7_Accepted(r) ==
    /\ contains(default_state.text_rectangle, r)
    /\ default_state.char_width > 0 =>
          (r.x - 1) % default_state.char_width = 0 /\ r.w % default_state.char_width = 0
    /\ default_state.char_height > 0 =>
          (r.y - 1) % default_state.char_height = 0 /\ r.h % default_state.char_height = 0

\* C7: a TextRectangle(r) token is accepted exactly when r lies in the
\* default rectangle and is aligned to the cells; accepted, r becomes the
\* running text rectangle; rejected, the step yields UnsupportedTagValue.
C7_TextRectangle ==
    [][(pc = "scan" /\ ~parser_at_end /\ parser_item.tag = "tr") =>
          IF C7_Accepted(parser_item.r)
          THEN /\ render_state' = [render_state EXCEPT !.text_rectangle = parser_item.r]
               /\ values' = Append(values, parser_item)
               /\ pc' = "scan"
               /\ out' = out
          ELSE /\ render_state' = render_state
               /\ out' = Append(out, ErrItem(SyntaxError.UnsupportedTagValue))
               /\ pc' = "idle"]_vars

C7_Witness ==
    /\ default_state.char_width > 0
    /\ default_state.char_height > 0
    /\ pc = "scan"
    /\ Len(values) = 1
    /\ values[1].tag = "tr"
    /\ render_state.text_rectangle = values[1].r
    /\ render_state.text_rectangle = Rectangle_new(6, 8, 50, 14)

\* C8: the text rectangle of the running state, of the page state being
\* built and of every page snapshot is contained in the default rectangle.
C8_RectContained ==
    /\ contains(default_state.text_rectangle, render_state.text_rectangle)
    /\ contains(default_state.text_rectangle, rs.text_rectangle)
    /\ \A j \in 1..Len(out) :
          out[j].kind = "page" =>
              contains(default_state.text_rectangle, out[j].render_state.text_rectangle)

C8_Witness ==
    /\ parser.ms = <<TextRectangle(Rectangle_new(1, 1, 50, 14)), TextRectangle(Rectangle_new(1, 1, 200, 14))>>
    /\ render_state.text_rectangle = Rectangle_new(1, 1, 50, 14)
    /\ render_state.text_rectangle # default_state.text_rectangle
    /\ Len(out) = 1
    /\ out[1].kind = "err"

\* A scan step is about to hand the spacing token to update.
AtToken(tag) == pc = "scan" /\ ~parser_at_end /\ parser_item.tag = tag

\* The scan step took the token / returned an error for it.
TokenAccepted == pc' = "scan" /\ values' = Append(values, parser_item) /\ out' = out

TokenRejected == pc' = "idle" /\ Len(out') = Len(out) + 1 /\ out'[Len(out')].kind = "err"

\* C9 (as stated): on a sign where either cell dimension is non-zero, both
\* SpacingCharacter(n) and NewLine(Some(n)) are rejected.
C9_AsStated ==
    [][((AtToken("sc") \/ (AtToken("nl") /\ parser_item.a # None))
         /\ ~(default_state.char_width = 0 /\ default_state.char_height = 0))
       => TokenRejected]_vars

\* C9 (amended): NewLine(Some(n)) is accepted exactly when cell width and
\* cell height are both zero; SpacingCharacter(n) is accepted exactly when
\* the cell width is zero, whatever the cell height.
C9_Spacing ==
    [][/\ (AtToken("nl") /\ parser_item.a # None) =>
             IF default_state.char_width = 0 /\ default_state.char_height = 0
             THEN TokenAccepted /\ render_state'.line_spacing = parser_item.a
             ELSE TokenRejected
       /\ AtToken("sc") =>
             IF default_state.char_width = 0
             THEN TokenAccepted /\ render_state'.char_spacing = parser_item.a
             ELSE TokenRejected]_vars

C9_Witness ==
    /\ default_state.char_width = 0
    /\ default_state.char_height > 0
    /\ render_state.char_spacing = Some(2)
    /\ Len(out) = 1
    /\ out[1].kind = "err"
    /\ out[1].err = SyntaxError.UnsupportedTagValue
    /\ parser.ms = <<SpacingCharacter(2), NewLine(Some(4))>>

\* The explicit spacings of a state are absent unless the cell width is 0.
SpacingAllowed(state) ==
    /\ (state.char_spacing # None \/ state.line_spacing # None) => state.char_width = 0
    /\ state.char_width > 0 => state.char_spacing = None /\ state.line_spacing = None

\* C10: in the running state, the page state being built and every page
\* snapshot, an explicit character or line spacing is present only if the
\* cell width is 0; on a character-matrix sign both stay absent.
C10_SpacingOnlyFullMatrix ==
    /\ SpacingAllowed(render_state)
    /\ SpacingAllowed(rs)
    /\ \A j \in 1..Len(out) : out[j].kind = "page" => SpacingAllowed(out[j].render_state)

C10_Witness ==
    /\ Len(out) = 2
    /\ out[2].kind = "page"
    /\ out[1].values = <<SpacingCharacter(2)>>
    /\ out[2].render_state.char_spacing = Some(2)
    /\ out[2].render_state.char_width = 0

\* The error of the item the step returned.
ReturnedError == out'[Len(out')].err

\* C11: NewLine(Some(n)) on a sign that is not full-matrix fails with
\* UnsupportedTagValue, SpacingCharacter(n) on a character-matrix sign fails
\* with UnsupportedTag; NewLine(None) and SpacingCharacterEnd are accepted on
\* every sign and clear the explicit line / character spacing.
C11_ErrorKinds ==
    [][/\ (AtToken("nl") /\ parser_item.a # None
            /\ ~(default_state.char_width = 0 /\ default_state.char_height = 0))
          => TokenRejected /\ ReturnedError = SyntaxError.UnsupportedTagValue
       /\ (AtToken("sc") /\ default_state.char_width > 0)
          => TokenRejected /\ ReturnedError = SyntaxError.UnsupportedTag
       /\ (AtToken("nl") /\ parser_item.a = None)
          => TokenAccepted /\ render_state'.line_spacing = None
       /\ AtToken("/sc")
          => TokenAccepted /\ render_state'.char_spacing = None]_vars

C11_Witness ==
    /\ default_state.char_width > 0
    /\ parser.ms = <<NewLine(None), NewLine(Some(4))>>
    /\ Len(out) = 1
    /\ out[1].kind = "err"
    /\ out[1].err = SyntaxError.UnsupportedTagValue

\* The tags of the transition table of update (the page break aside, which
\* the splitter consumes itself).
SupportedTags == {"cb", "cf", "fo", "jl", "jp", "nl", "pb", "pt", "sc", "/sc", "tr", "text"}

IsUnsupported(v) == v.tag \notin SupportedTags \cup {"np", "err"}

\* What the page sequence shows of an unsupported token at position i: it is
\* in no page, the sequence ends in an error no later than the item of the
\* page that holds it, and that item is UnsupportedTag(its name) when no
\* earlier token failed.
UnsupportedShown(ms, i) ==
    LET j == BreaksBefore(ms, i) + 1
    IN  /\ Len(Items) <= j
        /\ Exhausted => Len(Items) >= 1 /\ Items[Len(Items)].kind = "err"
        /\ (Exhausted /\ FirstFailure(ms) = i) =>
              /\ Len(Items) = j
              /\ Items[j].err = SyntaxError.UnsupportedTag
              /\ Items[j].name = ms[i].tag

\* C12: update refuses with UnsupportedTag(name) every token outside the
\* supported set (flashing, hexadecimal character, manufacturer specific),
\* the state unchanged, so the page holding it is an error and never a
\* page; on a full-matrix sign no supported token is refused as
\* UnsupportedTag.
C12_Unsupported ==
    /\ [][(pc = "scan" /\ ~parser_at_end /\ IsUnsupported(parser_item)) =>
             /\ TokenRejected
             /\ ReturnedError = SyntaxError.UnsupportedTag
             /\ out'[Len(out')].name = parser_item.tag
             /\ render_state' = render_state]_vars
    /\ [][(pc = "scan" /\ ~parser_at_end /\ parser_item.tag \in SupportedTags
             /\ default_state.char_width = 0 /\ default_state.char_height = 0) =>
             ~(TokenRejected /\ ReturnedError = SyntaxError.UnsupportedTag)]_vars
    /\ [](/\ \A i \in 1..Len(parser.ms) : IsUnsupported(parser.ms[i]) => UnsupportedShown(parser.ms, i)
          /\ \A j \in 1..Len(out) : \A k \in 1..Len(out[j].values) : ~IsUnsupported(out[j].values[k]))

C12_Witness ==
    /\ parser.ms = <<Text, HexadecimalCharacter>>
    /\ Exhausted
    /\ Len(out) = 1
    /\ out[1].kind = "err"
    /\ out[1].err = SyntaxError.UnsupportedTag
    /\ out[1].name = "hc"

HasTag(toks, tag) == \E k \in 1..Len(toks) : toks[k].tag = tag

\* The last token of toks with this tag (toks has one).
LastWithTag(toks, tag) == toks[CHOOSE k \in 1..Len(toks) : toks[k].tag = tag /\ \A h \in (k + 1)..Len(toks) : toks[h].tag # tag]

\* The snapshot of the page before page j; the sign's defaults before the
\* first page.
PreviousSnapshot(j) == IF j = 1 THEN default_state ELSE out[j - 1].render_state

\* C13: a page without page-background tag has the page background of the
\* previous page's snapshot, a page without page-time tag its on and off
\* times (the running values, not the sign's defaults); a page whose last
\* such tag has no value has the sign's default.
C13_CarriedForward ==
    \A j \in 1..Len(out) :
        out[j].kind = "page" =>
            LET snap == out[j].render_state
                prev == PreviousSnapshot(j)
                toks == out[j].values
            IN  /\ ~HasTag(toks, "pb") => snap.page_background = prev.page_background
                /\ ~HasTag(toks, "pt") =>
                      /\ snap.page_on_time_ds = prev.page_on_time_ds
                      /\ snap.page_off_time_ds = prev.page_off_time_ds
                /\ (HasTag(toks, "pb") /\ LastWithTag(toks, "pb").a = None) =>
                      snap.page_background = default_state.page_background
                /\ (HasTag(toks, "pt") /\ LastWithTag(toks, "pt").a = None) =>
                      snap.page_on_time_ds = default_state.page_on_time_ds
                /\ (HasTag(toks, "pt") /\ LastWithTag(toks, "pt").b = None) =>
                      snap.page_off_time_ds = default_state.page_off_time_ds

C13_Witness ==
    /\ parser.ms = <<PageBackground(Some(5)), NewPage, PageTime(Some(10), Some(2)), NewPage>>
    /\ Len(out) = 3
    /\ out[3].kind = "page"
    /\ out[3].values = <<>>
    /\ out[2].render_state.page_background = 5
    /\ out[3].render_state.page_background = 5
    /\ out[3].render_state.page_on_time_ds = 10
    /\ out[3].render_state.page_off_time_ds = 2
    /\ default_state.page_background = 0
    /\ default_state.page_on_time_ds = 20

\* C13, the return to the default: after a page that set the background, a
\* page with the valueless tag has the sign's background again.
C13_ResetReached ==
    /\ parser.ms = <<PageBackground(Some(5)), NewPage, PageBackground(None)>>
    /\ Len(out) = 2
    /\ out[1].render_state.page_background = 5
    /\ out[2].kind = "page"
    /\ out[2].render_state.page_background = default_state.page_background

\* The content lists of the first n items, one after the other.
RECURSIVE Contents(_)
Contents(n) == IF n = 0 THEN <<>> ELSE Contents(n - 1) \o out[n].values

WithoutBreaks(ms) == SelectSeq(ms, LAMBDA v : v.tag # "np")

\* C14: the content list of page j is the tokens between page boundaries
\* j-1 and j in source order, without any page break; once a stream with
\* no failing token is exhausted, the content lists of its pages in order
\* make up the stream with its page breaks removed.
C14_PageContent ==
    /\ \A j \in 1..Len(out) :
          out[j].kind = "page" =>
              /\ out[j].values = Segment(parser.ms, j)
              /\ ~HasTag(out[j].values, "np")
    /\ (Exhausted /\ ~HasFailure(parser.ms)) =>
          Contents(Len(Items)) = WithoutBreaks(parser.ms)

C14_Witness ==
    /\ parser.ms = <<Text, PageBackground(Some(5)), NewPage, Text>>
    /\ Exhausted
    /\ Len(out) = 2
    /\ out[1].values = <<Text, PageBackground(Some(5))>>
    /\ out[2].values = <<Text>>

\* C15: the result of rendering a page is a buffer of the width and height
\* of the snapshot's text rectangle, filled with the page background
\* resolved under the snapshot's color scheme and alpha 0; when the
\* background does not resolve, it is the error Other and no buffer.
C15_Render ==
    raster.of # 0 =>
        LET snap == out[raster.of].render_state
            clr == rgb(snap.page_background, snap.color_scheme)
        IN  IF clr # None
            THEN /\ raster.res.ok
                 /\ raster.res.page.w = snap.text_rectangle.w
                 /\ raster.res.page.h = snap.text_rectangle.h
                 /\ raster.res.page.fill = clr[1] \o <<0>>
            ELSE /\ ~raster.res.ok
                 /\ raster.res.err = SyntaxError.Other
                 /\ raster.res.page = NoRaster

C15_Witness ==
    /\ raster.of = 1
    /\ default_state = make_char_matrix
    /\ out[1].values = <<Text>>
    /\ raster.res.ok
    /\ raster.res.page = Raster_new(100, 21, <<0, 0, 0, 0>>)

\* C15, the failure: a page whose background the scheme cannot map.
C15_OtherReached ==
    /\ raster.of = 1
    /\ out[1].values = <<PageBackground(Some(5))>>
    /\ ~raster.res.ok
    /\ raster.res.err = SyntaxError.Other

\* The page has a text wider than the text rectangle of its snapshot.
TextTooWide(page) == \E k \in 1..Len(page.values) : page.values[k].tag = "text" /\ text_width(page.values[k]) > page.render_state.text_rectangle.w

\* C16 (as stated): rendering a page whose text is wider than the text
\* rectangle (its background resolving) fails with TextTooBig.
C16_TextTooBig ==
    (/\ raster.of # 0
     /\ TextTooWide(out[raster.of])
     /\ rgb(out[raster.of].render_state.page_background, out[raster.of].render_state.color_scheme) # None) =>
        ~raster.res.ok /\ raster.res.err = SyntaxError.TextTooBig

\* A page with a text 102 pixels wide on the 60 pixel wide sign has been
\* rendered into a buffer.
C16_Witness ==
    /\ raster.of = 1
    /\ default_state = make_full_matrix
    /\ out[1].values = <<TextOf(102)>>
    /\ raster.res.ok

\* The scanned token has this tag and no value.
AtValueless(tag) == AtToken(tag) /\ parser_item.a = None

\* C17: a tag without value is accepted and sets its attribute to the value
\* of default_state, whatever the running value: text-run background,
\* foreground, font, line and page justification, page background; a page
\* time sets each side to its value, or to the default when absent.
C17_ValuelessResets ==
    [][/\ AtValueless("cb") =>
             TokenAccepted /\ render_state'.color_background = default_state.color_background
       /\ AtValueless("cf") =>
             TokenAccepted /\ render_state'.color_foreground = default_state.color_foreground
       /\ (AtToken("fo") /\ parser_item.f = None) =>
             TokenAccepted /\ render_state'.font = default_state.font
       /\ AtValueless("jl") =>
             TokenAccepted /\ render_state'.just_line = default_state.just_line
       /\ AtValueless("jp") =>
             TokenAccepted /\ render_state'.just_page = default_state.just_page
       /\ AtValueless("pb") =>
             TokenAccepted /\ render_state'.page_background = default_state.page_background
       /\ AtToken("pt") =>
             /\ TokenAccepted
             /\ render_state'.page_on_time_ds = unwrap_or(parser_item.a, default_state.page_on_time_ds)
             /\ render_state'.page_off_time_ds = unwrap_or(parser_item.b, default_state.page_off_time_ds)]_vars

C17_Witness ==
    /\ parser.ms = <<PageTime(Some(10), Some(2)), PageTime(Some(10), None)>>
    /\ pc = "scan"
    /\ values = parser.ms
    /\ render_state.page_on_time_ds = 10
    /\ render_state.page_off_time_ds = default_state.page_off_time_ds
    /\ default_state.page_off_time_ds # 2

\* C17, a running value set back: the foreground after [cf3][cf].
C17_ForegroundReset ==
    /\ parser.ms = <<ColorForeground(Some(3)), ColorForeground(None)>>
    /\ values = parser.ms
    /\ render_state.color_foreground = default_state.color_foreground
    /\ default_state.color_foreground # 3

\* C18: when update returns an error (UnsupportedTag or
\* UnsupportedTagValue), every field of the running render state is as
\* before the call: for every token tried on a reachable running state,
\* and for the token make_page scans.
C18_ErrorLeavesState ==
    /\ [](\A v \in Values \ {NewPage, ParseErr} :
             LET res == update(render_state, default_state, v)
             IN  ~res.ok =>
                    /\ res.rs = render_state
                    /\ res.err \in {SyntaxError.UnsupportedTag, SyntaxError.UnsupportedTagValue})
    /\ [][(pc = "scan" /\ ~parser_at_end /\ parser_item.tag \notin {"err", "np"} /\ TokenRejected) =>
             render_state' = render_state]_vars

C18_Witness ==
    /\ parser.ms = <<ColorForeground(Some(3)), TextRectangle(Rectangle_new(1, 1, 200, 14))>>
    /\ Len(out) = 1
    /\ out[1].kind = "err"
    /\ out[1].err = SyntaxError.UnsupportedTagValue
    /\ render_state.color_foreground = 3
    /\ render_state.text_rectangle = default_state.text_rectangle

\* The fields of RenderState.
Fields == DOMAIN make_full_matrix

\* The attributes each row of the transition table names.
Row(tag) ==
    CASE tag = "cb" -> {"color_background"}
      [] tag = "cf" -> {"color_foreground"}
      [] tag = "fo" -> {"font"}
      [] tag = "jl" -> {"just_line"}
      [] tag = "jp" -> {"just_page"}
      [] tag = "nl" -> {"line_spacing"}
      [] tag = "pb" -> {"page_background"}
      [] tag = "pt" -> {"page_on_time_ds", "page_off_time_ds"}
      [] tag = "sc" -> {"char_spacing"}
      [] tag = "/sc" -> {"char_spacing"}
      [] tag = "tr" -> {"text_rectangle"}
      [] OTHER -> {}

\* C19: an accepted token leaves every field of the running state outside
\* its row unchanged, a Text token every field; no step changes the color
\* scheme, the cell width or the cell height of the running state, nor
\* default_state.
C19_Frame ==
    [][/\ (pc = "scan" /\ ~parser_at_end /\ TokenAccepted) =>
             \A f \in Fields \ Row(parser_item.tag) : render_state'[f] = render_state[f]
       /\ AtToken("text") => TokenAccepted /\ render_state' = render_state
       /\ render_state'.color_scheme = render_state.color_scheme
       /\ render_state'.char_width = render_state.char_width
       /\ render_state'.char_height = render_state.char_height
       /\ default_state' = default_state]_vars

C19_Witness ==
    /\ default_state = make_full_matrix
    /\ parser.ms = <<SpacingCharacter(2), NewLine(Some(4))>>
    /\ values = parser.ms
    /\ render_state = [default_state EXCEPT !.char_spacing = Some(2), !.line_spacing = Some(4)]

NoneReturned == \E i \in 1..Len(out) : out[i].kind = "none"

\* C20: for every token stream the splitter comes to return None, having
\* returned at most 1 + (number of page breaks) items before (so None is
\* returned by request 2 + breaks at the latest); and after a None or an
\* error every further request returns None.
C20_Terminates ==
    /\ <>NoneReturned
    /\ [](/\ Len(Items) <= 1 + NumBreaks(parser.ms)
          /\ \A i \in 1..Len(out) : \A j \in (i + 1)..Len(out) :
                out[i].kind \in {"none", "err"} => out[j].kind = "none")

C20_Witness ==
    /\ parser.ms = <<Text, NewPage, Text>>
    /\ Len(out) = 4
    /\ out[1].kind = "page" /\ out[2].kind = "page"
    /\ out[3].kind = "none" /\ out[4].kind = "none"

\* C20, after an error: the page break behind the failing token is never
\* turned into a page.
C20_AfterErrorReached ==
    /\ parser.ms = <<Flash, NewPage, Text>>
    /\ Len(out) = 3
    /\ out[1].kind = "err"
    /\ out[2].kind = "none" /\ out[3].kind = "none"

\* Two neighbours (spans or lines) whose spacing is averaged, in a build
\* with or without overflow checks, and the result.
Spacing_new(kind, overflow_checks, self, other) == [kind |-> kind, overflow_checks |-> overflow_checks, self |-> self, other |-> other, avg |-> NotComputed]

\* The values of a u8 spacing.
U8 == 0..(2 ^ 8 - 1)

\* Every pair of font spacings, of two spans of 5 pixels or two lines of 7
\* without explicit spacing.
InitSpacing ==
    \E sp0 \in U8, sp1 \in U8, oc \in BOOLEAN :
        \/ InitLayoutOf(make_full_matrix, Spacing_new("spans", oc, Span_new(5, None, sp0), Span_new(5, None, sp1)))
        \/ InitLayoutOf(make_full_matrix, Spacing_new("lines", oc, Line_new(7, None, sp0), Line_new(7, None, sp1)))

CharSpacingAvg ==
    /\ layout.kind = "spans"
    /\ layout.avg = NotComputed
    /\ layout' = [layout EXCEPT !.avg = Span_char_spacing_avg(layout.self, layout.other, layout.overflow_checks)]
    /\ UNCHANGED splitter

LineSpacingAvg ==
    /\ layout.kind = "lines"
    /\ layout.avg = NotComputed
    /\ layout' = [layout EXCEPT !.avg = Line_line_spacing_avg(layout.self, layout.other, layout.overflow_checks)]
    /\ UNCHANGED splitter

NextSpacing ==
    \/ CharSpacingAvg
    \/ LineSpacingAvg

SpecSpacing == InitSpacing /\ [][NextSpacing]_vars

(* ------------------------- claims on the layout ------------------------ *)

\* The average of two spacings, a half rounded up.
CeilAvg(a, b) == (a + b + 1) \div 2

\* The width of the text of a fragment: the widths of its spans and the
\* averaged character spacing between each two neighbours.
RECURSIVE TextWidth(_)
TextWidth(spans) ==
    IF Len(spans) = 0 THEN 0
    ELSE IF Len(spans) = 1 THEN spans[1].width
    ELSE spans[1].width + CeilAvg(Span_char_spacing(spans[1]), Span_char_spacing(spans[2])) + TextWidth(Tail(spans))

\* The gap above a line: its explicit line spacing, else the average with
\* the line before.
LineGap(prev, line) == IF line.line_spacing # None THEN line.line_spacing[1] ELSE CeilAvg(prev.font_line_spacing, line.font_line_spacing)

\* The height of the text of a block: the heights of its lines and the gap
\* between each two neighbours.
RECURSIVE TextHeight(_)
TextHeight(lines) ==
    IF Len(lines) = 0 THEN 0
    ELSE IF Len(lines) = 1 THEN lines[1].height
    ELSE lines[1].height + LineGap(lines[1], lines[2]) + TextHeight(Tail(lines))

\* The offset of an element of `size` pixels in `room` pixels on cells of
\* `cell` pixels under the justification code `just` (2 start, 3 centre,
\* 4 end): the position from `origin`, or UnsupportedTagValue.
Placed(origin, room, size, cell, just) ==
    LET extra == (room \div cell - size \div cell) * cell
    IN  IF just = LineJustification.Left THEN OkVal(origin)
        ELSE IF just = LineJustification.Center THEN OkVal(origin + ((extra \div 2) \div cell) * cell)
        ELSE IF just = LineJustification.Right THEN OkVal(origin + extra)
        ELSE ErrVal(SyntaxError.UnsupportedTagValue)

\* Every span / line of the tree laid out has text.
AllSpansText == \A k \in 1..Len(layout.tree.spans) : layout.tree.spans[k].width > 0

AllLinesText == \A k \in 1..Len(layout.tree.lines) : layout.tree.lines[k].height > 0

\* C21 (as stated): the x a fragment starts at is the text rectangle's x
\* plus 0 (Left), half the extra width floored to the cell width (Center)
\* or the extra width (Right), the extra width being (rectangle width in
\* cells - text width in cells) * cell width, and any other justification
\* fails with UnsupportedTagValue; a block's top likewise with the page
\* justification and the cell height.  Stated for text that fits.
C21_Placement ==
    LET state == layout.tree.render_state
    IN  /\ (layout.kind = "fragment" /\ layout.place # NotComputed /\ AllSpansText
              /\ TextWidth(layout.tree.spans) \div char_width(state) <= state.text_rectangle.w \div char_width(state)) =>
               layout.place = Placed(state.text_rectangle.x, state.text_rectangle.w, TextWidth(layout.tree.spans), char_width(state), state.just_line)
        /\ (layout.kind = "block" /\ layout.place # NotComputed /\ AllLinesText
              /\ TextHeight(layout.tree.lines) \div char_height(state) <= state.text_rectangle.h \div char_height(state)) =>
               layout.place = Placed(state.text_rectangle.y, state.text_rectangle.h, TextHeight(layout.tree.lines), char_height(state), state.just_page)

\* A fragment of one span 12 pixels wide, right justified in the rectangle
\* of 4 cells of 5 pixels at x = 6, starts at 6 + 20, the whole width of
\* the rectangle, as if it had no text.
C21_Witness ==
    /\ layout.kind = "fragment"
    /\ layout.tree.spans = <<Span_new(12, None, 1)>>
    /\ layout.tree.render_state = [make_char_matrix EXCEPT !.just_line = LineJustification.Right, !.text_rectangle = Rectangle_new(6, 8, 20, 14)]
    /\ layout.place = OkVal(26)

\* The placement is the stated one of the width and height the tree
\* itself computes (Fragment::width, Block::height).
PlacementOfComputedSize ==
    LET state == layout.tree.render_state
    IN  /\ (layout.kind = "fragment" /\ layout.place # NotComputed) =>
               layout.place = Placed(state.text_rectangle.x, state.text_rectangle.w, Fragment_width(layout.tree, layout.overflow_checks).v, char_width(state), state.just_line)
        /\ (layout.kind = "block" /\ layout.place # NotComputed) =>
               layout.place = Placed(state.text_rectangle.y, state.text_rectangle.h, Block_height(layout.tree, layout.overflow_checks).v, char_height(state), state.just_page)

\* The resolved spacings of the two neighbours averaged.
Spacing0 == IF layout.kind = "spans" THEN Span_char_spacing(layout.self) ELSE Line_line_spacing(layout.self)

Spacing1 == IF layout.kind = "spans" THEN Span_char_spacing(layout.other) ELSE Line_line_spacing(layout.other)

\* C22 (as stated): for every two spacings a and b in 0..255 of adjacent
\* spans, or adjacent lines without explicit line spacing, the gap is
\* (a + b) / 2 with a half rounded up, also when a + b exceeds 255.
C22_RoundedAverage ==
    (layout.kind \in {"spans", "lines"} /\ layout.avg # NotComputed) =>
        layout.avg = OkVal(CeilAvg(Spacing0, Spacing1))

\* The spacings 1 and 255 average to 0 in a build without overflow checks.
C22_Witness ==
    /\ layout.kind = "spans"
    /\ ~layout.overflow_checks
    /\ Spacing0 = 1
    /\ Spacing1 = 255
    /\ layout.avg = OkVal(0)

\* The spacings 200 and 100 abort a build with overflow checks.
C22_PanicReached ==
    /\ layout.kind = "lines"
    /\ layout.overflow_checks
    /\ Spacing0 = 200
    /\ Spacing1 = 100
    /\ layout.avg = ErrVal(Panic)

\* As long as the sum fits in a u8 the gap is the stated one.
AverageWithinU8 ==
    (layout.kind \in {"spans", "lines"} /\ layout.avg # NotComputed /\ Spacing0 + Spacing1 < 2 ^ 8) =>
        layout.avg = OkVal(CeilAvg(Spacing0, Spacing1))

\* The text of the tree laid out: the width of a fragment's spans, the
\* height of a block's lines.
TextSize == IF layout.kind = "fragment" THEN TextWidth(layout.tree.spans) ELSE TextHeight(layout.tree.lines)

\* C23 (as stated): the width a fragment computes is the sum of the widths
\* of all its spans, the first included, and of the averaged character
\* spacing between neighbours, which is how far render moves the pen from
\* the fragment's left; a block's height likewise counts every line.
C23_WidthCountsEverySpan ==
    layout.kind \in {"fragment", "block"} =>
        /\ layout.size # NotComputed => layout.size = OkVal(TextSize)
        /\ (layout.size # NotComputed /\ layout.place.ok /\ layout.pen.ok) =>
              layout.size.v = layout.pen.v - layout.place.v

\* Two spans of 5 and 12 pixels in a font of spacing 1: the pen moves 18
\* pixels, the width computed is 0.
C23_Witness ==
    /\ layout.kind = "fragment"
    /\ layout.tree.spans = <<Span_new(5, None, 1), Span_new(12, None, 1)>>
    /\ layout.size = OkVal(0)
    /\ layout.place.ok
    /\ layout.pen.ok
    /\ layout.pen.v - layout.place.v = 18

\* Every width and height computed is 0.
SizeAlwaysZero == (layout.kind \in {"fragment", "block"} /\ layout.size # NotComputed) => layout.size = OkVal(0)

\* render moves the pen by the widths of all spans (heights of all lines)
\* and the gaps between them.
PenAdvance == (layout.kind \in {"fragment", "block"} /\ layout.place.ok /\ layout.pen.ok) => layout.pen.v - layout.place.v = TextSize

====
